---- MODULE Spec2Model ----
(***************************************************************************)
(* A model of the css selector builder of src/src/06-objects-tasks.js:     *)
(* the class CssSelectorCreator, its ErrorCreator and the facade           *)
(* cssSelectorBuilder.                                                     *)
(*                                                                         *)
(* JavaScript strings are sequences of one-character strings, so that the  *)
(* regular expressions of the source are evaluated on the characters.      *)
(* Objects live in a heap (a sequence of instances, addressed by index);   *)
(* a method takes the heap and the address of `this` and returns the new   *)
(* heap together with what it threw or returned.                           *)
(***************************************************************************)
EXTENDS Naturals, Sequences, FiniteSets, TLC

VARIABLES heap, chains, last

vars == <<heap, chains, last>>

(***************************************************************************)
(* Bounds of the model and the inputs the calls are drawn from.            *)
(***************************************************************************)
\* Calls made in one behaviour of Spec (facade calls included).
MaxCalls == 3

\* Calls made on the one chain of SpecChain (the facade call included).
MaxChain == 4

\* The values handed to the part methods.
Values == {<<"a">>, <<"b">>}

\* The value handed to the part methods where several builders are in play.
OneValue == {<<"a">>}

\* The combinators handed to combine: ' ', '+', '~' and '>', one that has
\* none of their characters, and one that merely contains one of them.
Combinators == {<<" ">>, <<"+">>, <<"~">>, <<">">>, <<"*">>, <<"+", "+">>}

\* The call sites: each holds one variable, assigned by a facade call.
Clients == {1, 2}

\* The names of the six part methods.
Methods == {"element", "id", "class", "attr", "pseudoClass", "pseudoElement"}

(***************************************************************************)
(* The string literals handed to checkSelectorStructure.                   *)
(***************************************************************************)
T_element == <<"e", "l", "e", "m", "e", "n", "t">>

T_id == <<"i", "d">>

T_class == <<"c", "l", "a", "s", "s">>

T_attr == <<"a", "t", "t", "r">>

T_pseudo_class == <<"p", "s", "e", "u", "d", "o", "-", "c", "l", "a", "s", "s">>

T_pseudo_element == <<"p", "s", "e", "u", "d", "o", "-", "e", "l", "e", "m", "e", "n", "t">>

(***************************************************************************)
(* Regular expressions, as the engine decides them.                        *)
(***************************************************************************)
\* The literal w occurs in s at position p.
StartsAt(s, p, w) ==
    /\ p + Len(w) <= Len(s) + 1
    /\ \A i \in 1..Len(w) : s[p + i - 1] = w[i]

\* An unanchored regular expression that is the literal w, tested on s.
Contains(s, w) == \E p \in 1..(Len(s) + 1) : StartsAt(s, p, w)

\* /element|id|pseudo-element/ searched in s (String.prototype.match).
SingletonPattern(s) ==
    \/ Contains(s, T_element)
    \/ Contains(s, T_id)
    \/ Contains(s, T_pseudo_element)

\* The characters the class \s matches, among those the model uses.
WhiteSpace == {" ", "\t", "\n"}

\* /\s|\+|~|>/ tested on s: unanchored, so one matching character is enough.
allowedCombinators(s) ==
    \E p \in 1..Len(s) : s[p] \in WhiteSpace \cup {"+", "~", ">"}

\* The positions a match can have reached after an optional group (w)?.
Opt(P, w, s) == P \cup {p + Len(w) : p \in {q \in P : StartsAt(s, q, w)}}

\* The positions a match can have reached after a repeated group (w)*?.
RECURSIVE Star(_, _, _)
Star(P, w, s) ==
    LET N == Opt(P, w, s) IN IF N = P THEN P ELSE Star(N, w, s)

\* validOrderPattern with (class)? for (class)*?: one class at most.
validOrderPattern_oneClass(s) ==
    LET P1 == Opt({1}, T_element, s)
        P2 == Opt(P1, T_id, s)
        P3 == Opt(P2, T_class, s)
        P4 == Star(P3, T_attr, s)
        P5 == Star(P4, T_pseudo_class, s)
        P6 == Opt(P5, T_pseudo_element, s)
    IN  (Len(s) + 1) \in P6

\* validOrderPattern with (class)?(class)? for (class)*?: two classes at most.
validOrderPattern_twoClasses(s) ==
    LET P1 == Opt({1}, T_element, s)
        P2 == Opt(P1, T_id, s)
        P3 == Opt(Opt(P2, T_class, s), T_class, s)
        P4 == Star(P3, T_attr, s)
        P5 == Star(P4, T_pseudo_class, s)
        P6 == Opt(P5, T_pseudo_element, s)
    IN  (Len(s) + 1) \in P6

\* validOrderPattern without its $: a match need not reach the end of s.
validOrderPattern_noEnd(s) ==
    LET P1 == Opt({1}, T_element, s)
        P2 == Opt(P1, T_id, s)
        P3 == Star(P2, T_class, s)
        P4 == Star(P3, T_attr, s)
        P5 == Star(P4, T_pseudo_class, s)
        P6 == Opt(P5, T_pseudo_element, s)
    IN  P6 # {}

\* /^(element)?(id)?(class)*?(attr)*?(pseudo-class)*?(pseudo-element)?$/g
\* tested on s by a regular expression object made for the test.
validOrderPattern(s) ==
    LET P1 == Opt({1}, T_element, s)
        P2 == Opt(P1, T_id, s)
        P3 == Star(P2, T_class, s)
        P4 == Star(P3, T_attr, s)
        P5 == Star(P4, T_pseudo_class, s)
        P6 == Opt(P5, T_pseudo_element, s)
    IN  (Len(s) + 1) \in P6

(***************************************************************************)
(* ErrorCreator: each method throws an Error with its message.             *)
(***************************************************************************)
combinatorError(allowed) ==
    [thrown |-> "combinatorError",
     message |-> "Combinator parsing error! Only " \o allowed
                 \o " combinators are allowed to use"]

noDuplicateSelectors ==
    [thrown |-> "noDuplicateSelectors",
     message |-> "Element, id and pseudo-element should not occur more then one time inside the selector"]

selectorsOrderError ==
    [thrown |-> "selectorsOrderError",
     message |-> "Selector parts should be arranged in the following order: element, id, class, attribute, pseudo-class, pseudo-element"]

(***************************************************************************)
(* CssSelectorCreator.                                                     *)
(***************************************************************************)
\* The fields the constructor sets (this.throw holds no state).
CssSelectorCreator == [selector |-> <<>>, creationOrder |-> <<>>]

\* What a call leaves: the heap, the Error thrown ("" when none) and the
\* address returned (0 when it threw).
Returned(h, ret) == [heap |-> h, thrown |-> "", message |-> "", ret |-> ret]

Thrown(h, e) == [heap |-> h, thrown |-> e.thrown, message |-> e.message, ret |-> 0]

\* checkSelectorStructure with the order tested before the duplicates.
checkSelectorStructure_orderFirst(h, this, selector) ==
    LET h2 == [h EXCEPT ![this].creationOrder = @ \o selector]
    IN  IF ~validOrderPattern(h2[this].creationOrder)
        THEN Thrown(h2, selectorsOrderError)
        ELSE IF SingletonPattern(selector) /\ Contains(h[this].creationOrder, selector)
             THEN Thrown(h, noDuplicateSelectors)
             ELSE Returned(h2, this)

\* checkSelectorStructure recording the kind before it looks for a duplicate.
checkSelectorStructure_recordFirst(h, this, selector) ==
    LET h2 == [h EXCEPT ![this].creationOrder = @ \o selector]
    IN  IF SingletonPattern(selector) /\ Contains(h[this].creationOrder, selector)
        THEN Thrown(h2, noDuplicateSelectors)
        ELSE IF ~validOrderPattern(h2[this].creationOrder)
             THEN Thrown(h2, selectorsOrderError)
             ELSE Returned(h2, this)

\* checkSelectorStructure taking the kind off the record again when the
\* order test fails.
checkSelectorStructure_rollback(h, this, selector) ==
    IF SingletonPattern(selector) /\ Contains(h[this].creationOrder, selector)
    THEN Thrown(h, noDuplicateSelectors)
    ELSE LET h2 == [h EXCEPT ![this].creationOrder = @ \o selector]
         IN  IF ~validOrderPattern(h2[this].creationOrder)
             THEN Thrown(h, selectorsOrderError)
             ELSE Returned(h2, this)

checkSelectorStructure(h, this, selector) ==
    IF SingletonPattern(selector) /\ Contains(h[this].creationOrder, selector)
    THEN Thrown(h, noDuplicateSelectors)
    ELSE LET h2 == [h EXCEPT ![this].creationOrder = @ \o selector]
         IN  IF ~validOrderPattern(h2[this].creationOrder)
             THEN Thrown(h2, selectorsOrderError)
             ELSE Returned(h2, this)

element(h, this, value) ==
    LET c == checkSelectorStructure(h, this, T_element)
    IN  IF c.thrown # "" THEN c
        ELSE Returned([c.heap EXCEPT ![this].selector = @ \o value], this)

\* id appending its fragment before it validates.
id_appendFirst(h, this, value) ==
    LET h1 == [h EXCEPT ![this].selector = @ \o <<"#">> \o value]
        c == checkSelectorStructure(h1, this, T_id)
    IN  IF c.thrown # "" THEN c ELSE Returned(c.heap, this)

id(h, this, value) ==
    LET c == checkSelectorStructure(h, this, T_id)
    IN  IF c.thrown # "" THEN c
        ELSE Returned([c.heap EXCEPT ![this].selector = @ \o <<"#">> \o value], this)

\* class returning a copy of the builder in place of the builder.
class_copy(h, this, value) ==
    LET c == checkSelectorStructure(h, this, T_class)
    IN  IF c.thrown # "" THEN c
        ELSE Returned(Append(c.heap, [c.heap[this] EXCEPT !.selector = @ \o <<".">> \o value]),
                      Len(c.heap) + 1)

class(h, this, value) ==
    LET c == checkSelectorStructure(h, this, T_class)
    IN  IF c.thrown # "" THEN c
        ELSE Returned([c.heap EXCEPT ![this].selector = @ \o <<".">> \o value], this)

attr(h, this, value) ==
    LET c == checkSelectorStructure(h, this, T_attr)
    IN  IF c.thrown # "" THEN c
        ELSE Returned([c.heap EXCEPT ![this].selector = @ \o <<"[">> \o value \o <<"]">>], this)

pseudoClass(h, this, value) ==
    LET c == checkSelectorStructure(h, this, T_pseudo_class)
    IN  IF c.thrown # "" THEN c
        ELSE Returned([c.heap EXCEPT ![this].selector = @ \o <<":">> \o value], this)

pseudoElement(h, this, value) ==
    LET c == checkSelectorStructure(h, this, T_pseudo_element)
    IN  IF c.thrown # "" THEN c
        ELSE Returned([c.heap EXCEPT ![this].selector = @ \o <<":", ":">> \o value], this)

\* stringify reading the wrong field.
stringify_creationOrder(h, this) == h[this].creationOrder

\* this.selector.toString()
stringify(h, this) == h[this].selector

\* combine that does not wrap the descendant combinator in spaces.
combine_oneSpace(h, this, selector1, combinator, selector2) ==
    IF ~allowedCombinators(combinator)
    THEN Thrown(h, combinatorError("\" \", +, ~, >"))
    ELSE Returned([h EXCEPT ![this].selector =
                       @ \o stringify(h, selector1)
                         \o (IF combinator = <<" ">> THEN combinator
                             ELSE <<" ">> \o combinator \o <<" ">>)
                         \o stringify(h, selector2)],
                  this)

\* combine assigning the combination to selector (= for +=).
combine_assign(h, this, selector1, combinator, selector2) ==
    IF ~allowedCombinators(combinator)
    THEN Thrown(h, combinatorError("\" \", +, ~, >"))
    ELSE Returned([h EXCEPT ![this].selector =
                       stringify(h, selector1) \o <<" ">> \o combinator
                       \o <<" ">> \o stringify(h, selector2)],
                  this)

\* combine moving the text out of its second operand instead of copying it.
combine_move(h, this, selector1, combinator, selector2) ==
    IF ~allowedCombinators(combinator)
    THEN Thrown(h, combinatorError("\" \", +, ~, >"))
    ELSE LET text == h[this].selector \o stringify(h, selector1) \o <<" ">>
                       \o combinator \o <<" ">> \o stringify(h, selector2)
             h1 == [h EXCEPT ![selector2].selector = <<>>]
         IN  Returned([h1 EXCEPT ![this].selector = text], this)

\* combine taking over the recorded kinds of its operands as well.
combine_mergeOrder(h, this, selector1, combinator, selector2) ==
    IF ~allowedCombinators(combinator)
    THEN Thrown(h, combinatorError("\" \", +, ~, >"))
    ELSE Returned([h EXCEPT ![this] =
                       [selector |-> h[this].selector \o stringify(h, selector1)
                                       \o <<" ">> \o combinator \o <<" ">>
                                       \o stringify(h, selector2),
                        creationOrder |-> h[this].creationOrder
                                            \o h[selector1].creationOrder
                                            \o h[selector2].creationOrder]],
                  this)

combine(h, this, selector1, combinator, selector2) ==
    IF ~allowedCombinators(combinator)
    THEN Thrown(h, combinatorError("\" \", +, ~, >"))
    ELSE Returned([h EXCEPT ![this].selector =
                       @ \o stringify(h, selector1) \o <<" ">> \o combinator
                         \o <<" ">> \o stringify(h, selector2)],
                  this)

\* The part method named m, called on this.
CallPart(m, h, this, value) ==
    CASE m = "element" -> element(h, this, value)
      [] m = "id" -> id(h, this, value)
      [] m = "class" -> class(h, this, value)
      [] m = "attr" -> attr(h, this, value)
      [] m = "pseudoClass" -> pseudoClass(h, this, value)
      [] m = "pseudoElement" -> pseudoElement(h, this, value)

\* new CssSelectorCreator(): the heap with the new instance, at address
\* Len(h) + 1.
New(h) == Append(h, CssSelectorCreator)

(***************************************************************************)
(* cssSelectorBuilder: every method makes an instance and calls the method *)
(* of the same name on it.                                                 *)
(***************************************************************************)
\* The facade keeping one instance for all its calls.
cssSelectorBuilder_part_shared(m, h, value) ==
    IF Len(h) = 0 THEN CallPart(m, New(h), 1, value) ELSE CallPart(m, h, 1, value)

cssSelectorBuilder_part(m, h, value) == CallPart(m, New(h), Len(h) + 1, value)

cssSelectorBuilder_combine(h, selector1, combinator, selector2) ==
    combine(New(h), Len(h) + 1, selector1, combinator, selector2)

(***************************************************************************)
(* The clients.  A chain is what a client holds of one call chain: the     *)
(* reference the last successful call returned (ref, 0 before the facade   *)
(* call) and the calls made on the chain so far (hist), each with the      *)
(* operand texts it was given and the name of the ErrorCreator method that *)
(* threw ("" when none did).  A call that throws is caught by the client,  *)
(* who keeps its reference.                                                *)
(***************************************************************************)
PartCall(m, value, thrown) ==
    [op |-> "part", method |-> m, value |-> value, s1 |-> <<>>,
     combinator |-> <<>>, s2 |-> <<>>, thrown |-> thrown]

CombineCall(s1, combinator, s2, thrown) ==
    [op |-> "combine", method |-> "", value |-> <<>>, s1 |-> s1,
     combinator |-> combinator, s2 |-> s2, thrown |-> thrown]

NoChain == [ref |-> 0, hist |-> <<>>]

\* The record of the latest call: the client that made it, whether it was
\* made on the facade, the address of `this`, the arguments, and what the
\* call threw or returned.
NoCall ==
    [op |-> "none", client |-> 0, facade |-> FALSE, this |-> 0,
     method |-> "", value |-> <<>>,
     selector1 |-> 0, combinator |-> <<>>, selector2 |-> 0,
     thrown |-> "", message |-> "", ret |-> 0, result |-> <<>>]

\* The clients that hold a builder.
Started == {c \in Clients : chains[c].ref # 0}

\* The calls made so far that count against MaxCalls: those of the chains
\* and the facade calls that threw (whose instance no client holds).
Calls ==
    LET RECURSIVE Sum(_)
        Sum(S) == IF S = {} THEN 0
                  ELSE LET c == CHOOSE x \in S : TRUE
                       IN  Len(chains[c].hist) + Sum(S \ {c})
    IN  (Len(heap) - Cardinality(Started)) + Sum(Clients)

Init ==
    /\ heap = <<>>
    /\ chains = [c \in Clients |-> NoChain]
    /\ last = NoCall

\* c: x = cssSelectorBuilder.<m>(value)
FacadePart(c, m, value) ==
    /\ chains[c].ref = 0
    /\ \E r \in {cssSelectorBuilder_part(m, heap, value)} :
          /\ heap' = r.heap
          /\ chains' = IF r.thrown = ""
                       THEN [chains EXCEPT ![c] = [ref |-> r.ret,
                                                   hist |-> <<PartCall(m, value, "")>>]]
                       ELSE chains
          /\ last' = [NoCall EXCEPT !.op = "part", !.client = c, !.facade = TRUE,
                                    !.this = Len(heap) + 1,
                                    !.method = m, !.value = value,
                                    !.thrown = r.thrown, !.message = r.message,
                                    !.ret = r.ret]

\* c: x = cssSelectorBuilder.combine(selector1, combinator, selector2), the
\* operands being the builders the clients c1 and c2 hold.
FacadeCombine(c, c1, combinator, c2) ==
    /\ chains[c].ref = 0
    /\ chains[c1].ref # 0
    /\ chains[c2].ref # 0
    /\ \E r \in {cssSelectorBuilder_combine(heap, chains[c1].ref, combinator,
                                            chains[c2].ref)} :
          /\ heap' = r.heap
          /\ chains' = IF r.thrown = ""
                       THEN [chains EXCEPT ![c] =
                               [ref |-> r.ret,
                                hist |-> <<CombineCall(heap[chains[c1].ref].selector,
                                                       combinator,
                                                       heap[chains[c2].ref].selector,
                                                       "")>>]]
                       ELSE chains
          /\ last' = [NoCall EXCEPT !.op = "combine", !.client = c, !.facade = TRUE,
                                    !.this = Len(heap) + 1,
                                    !.selector1 = chains[c1].ref,
                                    !.combinator = combinator,
                                    !.selector2 = chains[c2].ref,
                                    !.thrown = r.thrown, !.message = r.message,
                                    !.ret = r.ret]

\* c: x = x.<m>(value)
Part(c, m, value) ==
    /\ chains[c].ref # 0
    /\ \E r \in {CallPart(m, heap, chains[c].ref, value)} :
          /\ heap' = r.heap
          /\ chains' = [chains EXCEPT
                           ![c].hist = Append(@, PartCall(m, value, r.thrown)),
                           ![c].ref = IF r.thrown = "" THEN r.ret ELSE @]
          /\ last' = [NoCall EXCEPT !.op = "part", !.client = c,
                                    !.this = chains[c].ref,
                                    !.method = m, !.value = value,
                                    !.thrown = r.thrown, !.message = r.message,
                                    !.ret = r.ret]

\* c: x = x.combine(selector1, combinator, selector2)
Combine(c, c1, combinator, c2) ==
    /\ chains[c].ref # 0
    /\ chains[c1].ref # 0
    /\ chains[c2].ref # 0
    /\ \E r \in {combine(heap, chains[c].ref, chains[c1].ref, combinator,
                         chains[c2].ref)} :
          /\ heap' = r.heap
          /\ chains' = [chains EXCEPT
                           ![c].hist = Append(@, CombineCall(heap[chains[c1].ref].selector,
                                                             combinator,
                                                             heap[chains[c2].ref].selector,
                                                             r.thrown)),
                           ![c].ref = IF r.thrown = "" THEN r.ret ELSE @]
          /\ last' = [NoCall EXCEPT !.op = "combine", !.client = c,
                                    !.this = chains[c].ref,
                                    !.selector1 = chains[c1].ref,
                                    !.combinator = combinator,
                                    !.selector2 = chains[c2].ref,
                                    !.thrown = r.thrown, !.message = r.message,
                                    !.ret = r.ret]

\* c: x.stringify()
Stringify(c) ==
    /\ chains[c].ref # 0
    /\ last' = [NoCall EXCEPT !.op = "stringify", !.client = c,
                              !.this = chains[c].ref,
                              !.result = stringify(heap, chains[c].ref)]
    /\ UNCHANGED <<heap, chains>>

(***************************************************************************)
(* Spec: the clients start their chains on the facade, one after the       *)
(* other, and call on them in any interleaving, MaxCalls calls in all.     *)
(***************************************************************************)
\* The clients are alike, so the next to call the facade is the first that
\* holds no builder.
NextToStart(c) ==
    /\ chains[c].ref = 0
    /\ \A d \in Clients : d < c => chains[d].ref # 0

DoFacadePart ==
    /\ Calls < MaxCalls
    /\ \E c \in Clients, m \in Methods, v \in OneValue :
          NextToStart(c) /\ FacadePart(c, m, v)

DoFacadeCombine ==
    /\ Calls < MaxCalls
    /\ \E c \in Clients, c1 \in Clients, c2 \in Clients, k \in Combinators :
          NextToStart(c) /\ FacadeCombine(c, c1, k, c2)

DoPart ==
    /\ Calls < MaxCalls
    /\ \E c \in Clients, m \in Methods, v \in OneValue : Part(c, m, v)

DoCombine ==
    /\ Calls < MaxCalls
    /\ \E c \in Clients, c1 \in Clients, c2 \in Clients, k \in Combinators :
          Combine(c, c1, k, c2)

DoStringify == \E c \in Clients : Stringify(c)

Next == DoFacadePart \/ DoFacadeCombine \/ DoPart \/ DoCombine \/ DoStringify

Spec == Init /\ [][Next]_vars

(***************************************************************************)
(* SpecChain: the client 1 alone, and a chain of at most MaxChain part     *)
(* calls.                                                                  *)
(***************************************************************************)
ChainStart == \E m \in Methods, v \in Values : FacadePart(1, m, v)

ChainPart ==
    /\ Len(chains[1].hist) < MaxChain
    /\ \E m \in Methods, v \in Values : Part(1, m, v)

ChainStringify == Stringify(1)

NextChain == ChainStart \/ ChainPart \/ ChainStringify

SpecChain == Init /\ [][NextChain]_vars

(***************************************************************************)
(* The vocabulary of the properties below.                                 *)
(***************************************************************************)
\* The place of a part method's kind in the canonical order.
Rank(m) ==
    CASE m = "element" -> 1
      [] m = "id" -> 2
      [] m = "class" -> 3
      [] m = "attr" -> 4
      [] m = "pseudoClass" -> 5
      [] m = "pseudoElement" -> 6

\* The kinds that may occur once only.
Singletons == {"element", "id", "pseudoElement"}

\* The four combinators: ' ', '+', '~', '>'.
AllowedSymbols == {<<" ">>, <<"+">>, <<"~">>, <<">">>}

\* The calls of h are part calls whose kinds match
\* element? id? class* attribute* pseudo-class* pseudo-element?.
Canonical(h) ==
    /\ \A i \in 1..Len(h) : h[i].op = "part"
    /\ \A i \in 1..Len(h) : \A j \in (i + 1)..Len(h) :
          /\ Rank(h[i].method) <= Rank(h[j].method)
          /\ h[i].method = h[j].method => h[i].method \notin Singletons

\* The fragment a part renders as: value, #value, .value, [value], :value,
\* ::value.
Fragment(m, value) ==
    CASE m = "element" -> value
      [] m = "id" -> <<"#">> \o value
      [] m = "class" -> <<".">> \o value
      [] m = "attr" -> <<"[">> \o value \o <<"]">>
      [] m = "pseudoClass" -> <<":">> \o value
      [] m = "pseudoElement" -> <<":", ":">> \o value

\* The fragments of the part calls of h, concatenated in call order.
RECURSIVE Fragments(_)
Fragments(h) ==
    IF h = <<>> THEN <<>>
    ELSE Fragments(SubSeq(h, 1, Len(h) - 1)) \o Fragment(h[Len(h)].method, h[Len(h)].value)

\* The text of the builder the client c holds.
Text(c) == heap[chains[c].ref].selector

\* A builder that renders as text, standing for an operand of combine.
Operand(text) == [selector |-> text, creationOrder |-> <<>>]

\* The call e made on the instance inst, with no other instance around but
\* the operands of the call.
Alone(inst, e) ==
    IF e.op = "part"
    THEN CallPart(e.method, <<inst>>, 1, e.value)
    ELSE combine(<<inst, Operand(e.s1), Operand(e.s2)>>, 1, 2, e.combinator, 3)

\* The calls of h made one after the other on the instance inst, with no
\* other instance around: the instance they leave and what each of them
\* threw, added to thrown.
RECURSIVE ReplayFrom(_, _, _)
ReplayFrom(inst, thrown, h) ==
    IF h = <<>> THEN [inst |-> inst, thrown |-> thrown]
    ELSE LET r == Alone(inst, Head(h))
         IN  ReplayFrom(r.heap[1], Append(thrown, r.thrown), Tail(h))

\* The calls of h made on a builder of its own, from the constructor on.
Replay(h) == ReplayFrom(CssSelectorCreator, <<>>, h)

\* What each call of h threw.
Outcomes(h) == [i \in 1..Len(h) |-> h[i].thrown]

\* h without its i-th call.
RemoveAt(h, i) == SubSeq(h, 1, i - 1) \o SubSeq(h, i + 1, Len(h))

(***************************************************************************)
(* C1.  Part calls whose kinds match the canonical grammar                 *)
(* element? id? class* attribute* pseudo-class* pseudo-element? all        *)
(* succeed, and the text of the builder, and what stringify() returns, is  *)
(* the concatenation of the parts' fragments in call order.                *)
(***************************************************************************)
C1_CanonicalChainRenders ==
    \A c \in Started :
        Canonical(chains[c].hist) =>
            /\ \A i \in 1..Len(chains[c].hist) : chains[c].hist[i].thrown = ""
            /\ Text(c) = Fragments(chains[c].hist)
            /\ (last.op = "stringify" /\ last.client = c)
                  => last.result = Fragments(chains[c].hist)

\* A canonical chain of four parts with a kind repeated, read by stringify.
C1_Witness ==
    /\ 1 \in Started
    /\ Canonical(chains[1].hist)
    /\ Len(chains[1].hist) = 4
    /\ \E i \in 1..3 : chains[1].hist[i].method = chains[1].hist[i + 1].method
    /\ \E i \in 1..3 : chains[1].hist[i].value # chains[1].hist[i + 1].value
    /\ last.op = "stringify"

(***************************************************************************)
(* C2.  The second of two calls of the same kind among element, id and     *)
(* pseudo-element fails with the duplicate-selector error, whatever was    *)
(* called between them and even where it violates the order too.           *)
(***************************************************************************)
C2_SecondSingletonIsDuplicate ==
    \A c \in Started :
        \A j \in 1..Len(chains[c].hist) : \A i \in 1..(j - 1) :
            ( /\ chains[c].hist[i].op = "part"
              /\ chains[c].hist[j].op = "part"
              /\ chains[c].hist[j].method \in Singletons
              /\ chains[c].hist[i].method = chains[c].hist[j].method )
            => chains[c].hist[j].thrown = "noDuplicateSelectors"

\* element, class, element: the third call is out of order and a duplicate.
C2_Witness ==
    /\ 1 \in Started
    /\ Len(chains[1].hist) = 3
    /\ chains[1].hist[1].method = "element"
    /\ chains[1].hist[2].method = "class"
    /\ chains[1].hist[3].method = "element"
    /\ chains[1].hist[2].thrown = ""
    /\ last.thrown = "noDuplicateSelectors"

(***************************************************************************)
(* C3.  After a later-order kind was appended, a call of an earlier-order  *)
(* kind not called before fails with the selector-order error.             *)
(***************************************************************************)
C3_EarlierKindIsOrderError ==
    \A c \in Started :
        \A j \in 1..Len(chains[c].hist) : \A i \in 1..(j - 1) :
            ( /\ chains[c].hist[i].op = "part"
              /\ chains[c].hist[j].op = "part"
              /\ chains[c].hist[i].thrown = ""
              /\ Rank(chains[c].hist[j].method) < Rank(chains[c].hist[i].method)
              /\ \A k \in 1..(j - 1) :
                    chains[c].hist[k].method # chains[c].hist[j].method )
            => chains[c].hist[j].thrown = "selectorsOrderError"

(***************************************************************************)
(* C4.  combine with a combinator that is not one of the four symbols      *)
(* fails with the invalid-combinator error.                                *)
(***************************************************************************)
C4_OnlyTheFourSymbols ==
    (last.op = "combine" /\ last.combinator \notin AllowedSymbols)
        => last.thrown = "combinatorError"

(***************************************************************************)
(* C5.  combine(a, c, b) with one of the four combinators succeeds on a    *)
(* builder whose text is t (empty for the facade's) and leaves the text    *)
(* t + a.stringify() + ' ' + c + ' ' + b.stringify().                      *)
(***************************************************************************)
C5_CombineRoundTrip ==
    [][(last'.op = "combine" /\ last'.combinator \in AllowedSymbols) =>
          /\ last'.thrown = ""
          /\ heap'[last'.this].selector =
                (IF last'.facade THEN <<>> ELSE heap[last'.this].selector)
                \o heap[last'.selector1].selector
                \o <<" ">> \o last'.combinator \o <<" ">>
                \o heap[last'.selector2].selector]_vars

\* A descendant combine whose second operand is itself a descendant
\* combination: three spaces in the operand, three more before it.
C5_Witness ==
    /\ last.op = "combine"
    /\ last.thrown = ""
    /\ last.combinator = <<" ">>
    /\ last.selector2 # last.this
    /\ Contains(heap[last.selector2].selector, <<" ", " ", " ">>)
    /\ Contains(heap[last.this].selector,
                <<" ", " ", " ">> \o heap[last.selector2].selector)

(***************************************************************************)
(* C6.  After a part call failed, every later call on the builder has the  *)
(* outcome and leaves the text it would have had the failing call never    *)
(* been made.                                                              *)
(***************************************************************************)
C6_FailedCallLeavesNoTrace ==
    \A c \in Started :
        \A i \in 1..(Len(chains[c].hist) - 1) :
            (chains[c].hist[i].op = "part" /\ chains[c].hist[i].thrown # "")
            => \A without \in {Replay(RemoveAt(chains[c].hist, i))} :
                  /\ without.thrown = RemoveAt(Outcomes(chains[c].hist), i)
                  /\ without.inst.selector = Text(c)

(***************************************************************************)
(* C7.  Every facade call returns a new instance that starts empty: the    *)
(* clients hold different instances, and whatever the interleaving, the    *)
(* outcomes of a chain and its text are those of the chain run alone.      *)
(***************************************************************************)
C7_ChainsAreIndependent ==
    /\ \A c \in Started : \A d \in Started : c # d => chains[c].ref # chains[d].ref
    /\ \A c \in Started : \A alone \in {Replay(chains[c].hist)} :
          /\ alone.thrown = Outcomes(chains[c].hist)
          /\ alone.inst.selector = Text(c)

\* Client 1 called on its chain after client 2 had started its own.
C7_Witness ==
    /\ Started = Clients
    /\ last.client = 1
    /\ last.op = "part"
    /\ last.thrown = ""
    /\ Len(chains[1].hist) >= 2

(***************************************************************************)
(* C8.  stringify() never fails, returns the text as it is and changes     *)
(* nothing of any builder, so that a second call returns the same and      *)
(* later calls fare as without it.                                         *)
(***************************************************************************)
C8_StringifyIsPureRead ==
    [][last'.op = "stringify" =>
          /\ last'.thrown = ""
          /\ last'.result = heap[last'.this].selector
          /\ heap' = heap
          /\ chains' = chains]_vars

\* stringify() on a builder whose latest call failed.
C8_Witness ==
    /\ last.op = "stringify"
    /\ last.result # <<>>
    /\ Len(chains[last.client].hist) >= 2
    /\ chains[last.client].hist[Len(chains[last.client].hist)].thrown # ""

(***************************************************************************)
(* C9.  A successful part call or combine on a builder returns that very   *)
(* instance, not a copy, and the chain goes on with it.                    *)
(***************************************************************************)
C9_ReturnsThis ==
    [][(last'.op \in {"part", "combine"} /\ ~last'.facade /\ last'.thrown = "") =>
          /\ last'.ret = chains[last'.client].ref
          /\ chains'[last'.client].ref = chains[last'.client].ref
          /\ Len(heap') = Len(heap)]_vars

\* A chain of a facade call, a part call and a combine, all successful.
C9_Witness ==
    /\ last.op = "combine"
    /\ ~last.facade
    /\ last.thrown = ""
    /\ Len(chains[last.client].hist) = 3
    /\ chains[last.client].hist[2].op = "part"
    /\ chains[last.client].hist[2].thrown = ""

(***************************************************************************)
(* C10.  The duplicate-selector failure carries the message "Element, id   *)
(* and pseudo-element should not occur more than one time inside the       *)
(* selector", which is not the message of the other two failures.          *)
(***************************************************************************)
C10_DuplicateMessage ==
    last.thrown = "noDuplicateSelectors" =>
        /\ last.message = "Element, id and pseudo-element should not occur more than one time inside the selector"
        /\ last.message # selectorsOrderError.message
        /\ last.message # combinatorError("\" \", +, ~, >").message

(***************************************************************************)
(* The recorded kinds, read back from creationOrder.                       *)
(***************************************************************************)
\* The literal the part method m hands to checkSelectorStructure.
Tag(m) ==
    CASE m = "element" -> T_element
      [] m = "id" -> T_id
      [] m = "class" -> T_class
      [] m = "attr" -> T_attr
      [] m = "pseudoClass" -> T_pseudo_class
      [] m = "pseudoElement" -> T_pseudo_element

\* The kinds whose tags, one after the other, make up s (no tag is the
\* beginning of another, so there is one way to cut s).
RECURSIVE Kinds(_)
Kinds(s) ==
    IF s = <<>> THEN <<>>
    ELSE LET m == CHOOSE k \in Methods : StartsAt(s, 1, Tag(k))
         IN  <<m>> \o Kinds(SubSeq(s, Len(Tag(m)) + 1, Len(s)))

\* How often the kind m occurs in the sequence of kinds ks.
Count(ks, m) == Cardinality({i \in 1..Len(ks) : ks[i] = m})

\* The kinds of the part calls of h that succeeded, in call order.
RECURSIVE Appended(_)
Appended(h) ==
    IF h = <<>> THEN <<>>
    ELSE Appended(SubSeq(h, 1, Len(h) - 1))
         \o (IF h[Len(h)].op = "part" /\ h[Len(h)].thrown = ""
             THEN <<h[Len(h)].method>> ELSE <<>>)

\* The kinds ks are in canonical order, the singletons once at most.
CanonicalKinds(ks) ==
    \A i \in 1..Len(ks) : \A j \in (i + 1)..Len(ks) :
        /\ Rank(ks[i]) <= Rank(ks[j])
        /\ ks[i] = ks[j] => ks[i] \notin Singletons

(***************************************************************************)
(* C11.  The kinds recorded in creationOrder hold element, id and          *)
(* pseudo-element once at most each, in every state of every builder,      *)
(* failed calls included.                                                  *)
(***************************************************************************)
C11_SingletonsRecordedOnce ==
    \A a \in 1..Len(heap) : \A m \in Singletons :
        Count(Kinds(heap[a].creationOrder), m) <= 1

\* All three recorded, and a call on the builder has failed.
C11_Witness ==
    /\ 1 \in Started
    /\ \A m \in Singletons : Count(Kinds(heap[chains[1].ref].creationOrder), m) = 1
    /\ \E i \in 1..Len(chains[1].hist) : chains[1].hist[i].thrown # ""

(***************************************************************************)
(* C12.  The kinds recorded in creationOrder match the grammar             *)
(* element? id? class* attribute* pseudo-class* pseudo-element? and are    *)
(* the kinds of the appends that succeeded, in order, in every state of    *)
(* every builder, failed calls included.                                   *)
(***************************************************************************)
C12_RecordIsCanonicalAndExact ==
    \A c \in Started :
        /\ CanonicalKinds(Kinds(heap[chains[c].ref].creationOrder))
        /\ Kinds(heap[chains[c].ref].creationOrder) = Appended(chains[c].hist)

\* s is a prefix of t.
IsPrefix(s, t) == Len(s) <= Len(t) /\ SubSeq(t, 1, Len(s)) = s

(***************************************************************************)
(* C13.  The text of a builder is append-only: whatever the call made      *)
(* (part, combine or stringify, successful or failing), the text every     *)
(* builder had before it is a prefix of the text it has after it.          *)
(***************************************************************************)
C13_TextIsAppendOnly ==
    [][/\ Len(heap) <= Len(heap')
       /\ \A a \in 1..Len(heap) : IsPrefix(heap[a].selector, heap'[a].selector)]_vars

\* A successful combine on a builder that had a text other than that of
\* the first operand.
C13_Witness ==
    /\ last.op = "combine"
    /\ ~last.facade
    /\ last.thrown = ""
    /\ last.selector1 # last.this
    /\ Len(chains[last.client].hist) = 2
    /\ chains[last.client].hist[1].op = "part"
    /\ chains[last.client].hist[2].s1 # Fragments(<<chains[last.client].hist[1]>>)

(***************************************************************************)
(* C14.  A part call or a combine that fails (duplicate, order or invalid  *)
(* combinator) leaves the text of the builder, and of every builder, as it *)
(* was.                                                                    *)
(***************************************************************************)
C14_FailedCallKeepsText ==
    [][last'.thrown # "" =>
          \A a \in 1..Len(heap) : heap'[a].selector = heap[a].selector]_vars

\* A call that failed with the order error on a builder that has a text.
C14_Witness ==
    /\ last.op = "part"
    /\ ~last.facade
    /\ last.thrown = "selectorsOrderError"
    /\ heap[last.this].selector # <<>>

(***************************************************************************)
(* The validation as a set of the singleton kinds seen and a cursor into   *)
(* the canonical order.                                                    *)
(***************************************************************************)
\* The cursor after the kinds ks were appended: the place of the latest of
\* them in the canonical order, 0 when there is none.
Cursor(ks) ==
    IF ks = <<>> THEN 0
    ELSE CHOOSE r \in {Rank(ks[i]) : i \in 1..Len(ks)} :
            \A i \in 1..Len(ks) : Rank(ks[i]) <= r

\* What the call of the kind m throws after the kinds ks were appended:
\* the duplicate error for a singleton kind appended before, else the order
\* error for a kind that comes before the cursor, else nothing.
Reference(ks, m) ==
    IF m \in Singletons /\ \E i \in 1..Len(ks) : ks[i] = m
    THEN "noDuplicateSelectors"
    ELSE IF Rank(m) < Cursor(ks) THEN "selectorsOrderError" ELSE ""

(***************************************************************************)
(* C15.  Where all part calls before the last succeeded, the last call     *)
(* throws what the reference validation (seen singletons and cursor)       *)
(* throws.                                                                 *)
(***************************************************************************)
C15_RegexEqualsReference ==
    \A c \in Started :
        ( /\ \A i \in 1..Len(chains[c].hist) : chains[c].hist[i].op = "part"
          /\ \A i \in 1..(Len(chains[c].hist) - 1) : chains[c].hist[i].thrown = "" )
        => chains[c].hist[Len(chains[c].hist)].thrown
             = Reference(Appended(SubSeq(chains[c].hist, 1, Len(chains[c].hist) - 1)),
                         chains[c].hist[Len(chains[c].hist)].method)

(***************************************************************************)
(* C16.  combine copies the texts of its operands by value: a successful   *)
(* combine appends text(a) + ' ' + combinator + ' ' + text(b), as they are *)
(* at the call, to its receiver, and no call changes an instance other     *)
(* than its receiver, so combine leaves its operands as they were and a    *)
(* later call on an operand leaves the combined builder as it was.         *)
(***************************************************************************)
C16_CombineCopiesByValue ==
    [][/\ \A a \in 1..Len(heap) : a # last'.this => heap'[a] = heap[a]
       /\ (last'.op = "combine" /\ last'.thrown = "")
          => heap'[last'.this].selector
               = (IF last'.facade THEN <<>> ELSE heap[last'.this].selector)
                 \o heap[last'.selector1].selector \o <<" ">> \o last'.combinator
                 \o <<" ">> \o heap[last'.selector2].selector]_vars

\* The client 2 holds the combination of the builder of the client 1 with
\* itself, the client 1 has since appended to its builder, and the
\* combination still has the text of the time of the call.
C16_Witness ==
    /\ Started = {1, 2}
    /\ chains[2].hist[1].op = "combine"
    /\ last.op = "part" /\ last.client = 1 /\ last.thrown = ""
    /\ chains[2].hist[1].s1 # heap[chains[1].ref].selector
    /\ heap[chains[2].ref].selector
         = chains[2].hist[1].s1 \o <<" ">> \o chains[2].hist[1].combinator
           \o <<" ">> \o chains[2].hist[1].s2

(***************************************************************************)
(* The builder that stands for a set of kinds.                             *)
(***************************************************************************)
\* The kinds in canonical order.
CanonicalOrder == <<"element", "id", "class", "attr", "pseudoClass", "pseudoElement">>

\* One part call of each kind of the set S, in canonical order.
OnceEach(S) ==
    LET ks == SelectSeq(CanonicalOrder, LAMBDA m : m \in S)
    IN  [i \in 1..Len(ks) |-> PartCall(ks[i], <<"a">>, "")]

\* The set of the kinds of the calls of h.
KindSet(h) == {h[i].method : i \in 1..Len(h)}

(***************************************************************************)
(* C17.  The validation state is the set of the kinds seen: a builder      *)
(* reached by successful part calls and the builder reached by one         *)
(* successful call of each of the same kinds throw the same on every next  *)
(* part call, so two builders with the same set of kinds do.               *)
(***************************************************************************)
C17_StateIsSetOfKinds ==
    \A c \in Started :
        ( \A i \in 1..Len(chains[c].hist) :
              chains[c].hist[i].op = "part" /\ chains[c].hist[i].thrown = "" )
        => \A rep \in {Replay(OnceEach(KindSet(chains[c].hist)))} :
              /\ \A i \in 1..Len(rep.thrown) : rep.thrown[i] = ""
              /\ \A m \in Methods :
                    CallPart(m, heap, chains[c].ref, <<"a">>).thrown
                      = CallPart(m, <<rep.inst>>, 1, <<"a">>).thrown

\* Three successful calls of two kinds: the set of kinds is smaller than the
\* sequence, and both a duplicate and an order error are among the outcomes
\* of the next call.
C17_Witness ==
    /\ 1 \in Started
    /\ Len(chains[1].hist) = 3
    /\ \A i \in 1..3 : chains[1].hist[i].thrown = ""
    /\ KindSet(chains[1].hist) = {"id", "class"}
    /\ CallPart("id", heap, chains[1].ref, <<"a">>).thrown = "noDuplicateSelectors"
    /\ CallPart("element", heap, chains[1].ref, <<"a">>).thrown = "selectorsOrderError"
    /\ CallPart("class", heap, chains[1].ref, <<"a">>).thrown = ""

\* The kinds of the part calls of h that got as far as the record (all but
\* the duplicates), in order; the combine calls of h add nothing.
RECURSIVE Recorded(_)
Recorded(h) ==
    IF h = <<>> THEN <<>>
    ELSE Recorded(SubSeq(h, 1, Len(h) - 1))
         \o (IF h[Len(h)].op = "part" /\ h[Len(h)].thrown # "noDuplicateSelectors"
             THEN <<h[Len(h)].method>> ELSE <<>>)

(***************************************************************************)
(* C18.  combine never touches the recorded kinds: after a combine, thrown *)
(* or not, every instance has the creationOrder it had, and the instance   *)
(* the facade made for it has none; so a builder's record lists its own    *)
(* part calls only, whatever was combined into its text.                   *)
(***************************************************************************)
C18_CombineKeepsRecord ==
    [][/\ last'.op = "combine"
          => /\ \A a \in 1..Len(heap) :
                   heap'[a].creationOrder = heap[a].creationOrder
             /\ \A a \in (Len(heap) + 1)..Len(heap') :
                   heap'[a].creationOrder = <<>>
       /\ \A c \in Started' :
             Kinds(heap'[chains'[c].ref].creationOrder) = Recorded(chains'[c].hist)]_vars

\* combine(id('a'), '+', id('a')) succeeded, and element('a') on its result
\* succeeded and appended 'a' to the combined text.
C18_Witness ==
    /\ Started = {1, 2}
    /\ Len(chains[2].hist) = 2
    /\ chains[2].hist[1].op = "combine"
    /\ chains[2].hist[1].s1 = <<"#", "a">>
    /\ chains[2].hist[1].combinator = <<"+">>
    /\ chains[2].hist[2] = PartCall("element", <<"a">>, "")
    /\ heap[chains[2].ref].selector
         = <<"#", "a", " ", "+", " ", "#", "a", "a">>
    /\ heap[chains[2].ref].creationOrder = T_element

\* A pseudoElement call of h succeeded.
Closed(h) ==
    \E i \in 1..Len(h) :
        h[i].op = "part" /\ h[i].method = "pseudoElement" /\ h[i].thrown = ""

(***************************************************************************)
(* C19.  pseudo-element closes a compound selector: on a builder on which  *)
(* pseudoElement has succeeded, every part call throws and leaves the text *)
(* as it was, and a combine with one of the four combinators succeeds and  *)
(* makes the text longer.                                                  *)
(***************************************************************************)
C19_PseudoElementCloses ==
    [][(~last'.facade /\ Closed(chains[last'.client].hist))
       => /\ last'.op = "part"
             => /\ last'.thrown \in {"noDuplicateSelectors", "selectorsOrderError"}
                /\ heap'[last'.this].selector = heap[last'.this].selector
          /\ (last'.op = "combine" /\ last'.combinator \in AllowedSymbols)
             => /\ last'.thrown = ""
                /\ Len(heap'[last'.this].selector) > Len(heap[last'.this].selector)]_vars

\* pseudoElement succeeded, a part call then failed, and a combine then
\* succeeded on the same builder.
C19_Witness ==
    /\ 1 \in Started
    /\ Len(chains[1].hist) = 3
    /\ chains[1].hist[1] = PartCall("pseudoElement", <<"a">>, "")
    /\ chains[1].hist[2].op = "part" /\ chains[1].hist[2].thrown # ""
    /\ chains[1].hist[3].op = "combine" /\ chains[1].hist[3].thrown = ""
    /\ Len(heap[chains[1].ref].selector) > Len(chains[1].hist[3].s1)

\* A part call of h failed with the order error.
OrderFailed(h) ==
    \E i \in 1..Len(h) : h[i].op = "part" /\ h[i].thrown = "selectorsOrderError"

(***************************************************************************)
(* C20.  An order failure is permanent: on a builder on which a part call  *)
(* has thrown the order error, every part call throws the duplicate or the *)
(* order error and leaves the text as it was, while stringify returns the  *)
(* text and a combine with one of the four combinators succeeds and        *)
(* appends the combination to it.                                          *)
(***************************************************************************)
C20_OrderFailureIsPermanent ==
    [][(~last'.facade /\ OrderFailed(chains[last'.client].hist))
       => /\ last'.op = "part"
             => /\ last'.thrown \in {"noDuplicateSelectors", "selectorsOrderError"}
                /\ heap'[last'.this].selector = heap[last'.this].selector
          /\ last'.op = "stringify"
             => /\ last'.result = heap[last'.this].selector
                /\ heap' = heap
          /\ (last'.op = "combine" /\ last'.combinator \in AllowedSymbols)
             => /\ last'.thrown = ""
                /\ heap'[last'.this].selector
                     = heap[last'.this].selector
                       \o heap[last'.selector1].selector \o <<" ">>
                       \o last'.combinator \o <<" ">>
                       \o heap[last'.selector2].selector]_vars

\* class succeeded, element then failed with the order error, and class,
\* which was in order before the failure, now fails with it too; the text
\* is still that of the first call.
C20_Witness ==
    /\ 1 \in Started
    /\ chains[1].hist = << PartCall("class", <<"a">>, ""),
                           PartCall("element", <<"a">>, "selectorsOrderError"),
                           PartCall("class", <<"a">>, "selectorsOrderError") >>
    /\ heap[chains[1].ref].selector = <<".", "a">>

====
